---- MODULE Spec2Model ----
(***************************************************************************)
(* A model of the go-mego/cb circuit breaker.                              *)
(*                                                                         *)
(* The repository holds two revisions of package cb:                       *)
(*   - the middleware breaker (src/unnamed/part_002): New returns a        *)
(*     handler that runs the time-based pre-check, the trip policy and     *)
(*     the admission decision, calls the rest of the chain and records     *)
(*     the outcome with fail()/success();                                  *)
(*   - the Execute breaker (src/cb.go): Execute/Fail record outcomes, the  *)
(*     pre-check in the handler is commented out.                          *)
(* Spec is the middleware breaker, SpecCb the Execute breaker.             *)
(*                                                                         *)
(* Attempts are taken one at a time (pc is the position of the single      *)
(* handler invocation in flight); time is an integer clock.                *)
(***************************************************************************)
EXTENDS Integers, FiniteSets, Sequences, TLC

\* ------------------------------------------------------------------ bounds
\* The clock stops advancing at MaxTime.
MaxTime == 4
\* No further outcome is recorded once TotalSuccesses + TotalFailures = MaxCount.
MaxCount == 6
\* Options.Timeout is 1 or MaxTimeout; Options.Interval is MaxInterval.
MaxTimeout == 2
MaxInterval == 3
\* The handler invocations that may be in flight together (SpecConc).
NumProcs == 2

\* Cap on the outcomes recorded by the concurrent handlers between two
\* resets of the counts.
MaxConcCount == 3
\* Where the counters that nothing reads stop in the specification that
\* runs forever (SpecLive).
MaxUnread == 2

\* --------------------------------------------------------------- constants
StateClosed == "closed"
StateHalfOpen == "half-open"
StateOpen == "open"

ErrOpenState == "circuitbreaker: the circuit breaker is open"
NoError == "nil"

StatusOK == 200
StatusInternalServerError == 500
StatusBadGateway == 502
StatusServiceUnavailable == 503

\* tripper trips at this many consecutive failures.
DefaultThreshold == 5

\* Options.Timeout and Options.Interval, in seconds, when they are left 0.
DefaultDuration == 60

\* Options.MaxRequests when it is left 0 (the Execute breaker's New).
DefaultMaxRequests == 1

DefaultFailureStatuses == {500, 502, 503, 504, 506, 507}

\* The response statuses the guarded handler chain is let to produce.
Statuses == {StatusOK, StatusInternalServerError, StatusBadGateway}

\* time.Time{}: the value of lastFailure before any failure was recorded.
ZeroTime == -1

\* &Counts{}
ZeroCounts ==
    [TotalSuccesses |-> 0, TotalFailures |-> 0,
     ConsecutiveSuccesses |-> 0, ConsecutiveFailures |-> 0]

\* The policies Options.OnTrip is drawn from: the default tripper, and a
\* caller's policy that decides on the request context alone.
Policies == {"tripper", "context"}

VARIABLES
    b,        \* the Breaker: state, counts, lastFailure, lastInterval
    options,  \* Options: Timeout, Interval, OnTrip (fixed at construction)
    now,      \* the wall clock
    pc,       \* "idle": no attempt in flight; "next": the guarded chain runs
    ret,      \* the value and error of the last attempt (the handler's abort, Execute's return)
    ev,       \* the last operation on the breaker: [op, from (the Breaker before it), ran]
    manual,   \* the manual override since the last admission check, if any
    mapped,   \* whether c.Map(b) has handed the breaker to the application
    calls,    \* the calls made to Options.OnStateChange: <<name, from, to>> each
    hs,       \* SpecConc: each concurrent handler invocation's position and locals
    done      \* SpecConc: the outcomes recorded since the counts were last zeroed

vars == <<b, options, now, pc, ret, ev, manual, mapped, calls, hs, done>>

\* The handler invocations of SpecConc.
Procs == 1..NumProcs

\* A handler invocation that has not entered the handler.
IdleHandler == [pc |-> "idle", tmp |-> 0, admitted |-> StateClosed, out |-> "none"]

\* ---------------------------------------------------------------- helpers

\* time.Since(t) >= d at clock reading n. time.Since of the zero time
\* saturates at the largest Duration, which no configured d exceeds.
SinceAtLeast(t, n, d) == IF t = ZeroTime THEN TRUE ELSE n - t >= d

\* A tripper that trips only above the threshold.
tripper_above(c) == c.ConsecutiveFailures > DefaultThreshold

\* tripper: the default policy.
tripper(c) == c.ConsecutiveFailures >= DefaultThreshold

\* b.options.OnTrip(c, *b.counts); ctx is what a caller's policy reads
\* from the request context.
OnTrip(policy, ctx, c) == IF policy = "tripper" THEN tripper(c) ELSE ctx

\* A reset that leaves lastInterval alone.
reset_unstamped(br, n) ==
    [br EXCEPT !.counts = ZeroCounts, !.state = StateClosed]

\* Breaker.reset
reset(br, n) ==
    [br EXCEPT !.counts = ZeroCounts, !.lastInterval = n, !.state = StateClosed]

\* A fail that trips the breaker as soon as the default policy is met.
fail_eager(br, n) ==
    LET c == [br.counts EXCEPT !.TotalFailures = @ + 1,
                               !.ConsecutiveFailures = @ + 1,
                               !.ConsecutiveSuccesses = 0]
        b1 == [br EXCEPT !.lastFailure = n, !.counts = c]
    IN  IF b1.state = StateHalfOpen \/ tripper(c)
        THEN [b1 EXCEPT !.state = StateOpen] ELSE b1

\* A fail that leaves the success streak standing.
fail_streak(br, n) ==
    LET c == [br.counts EXCEPT !.TotalFailures = @ + 1,
                               !.ConsecutiveFailures = @ + 1]
        b1 == [br EXCEPT !.lastFailure = n, !.counts = c]
    IN  IF b1.state = StateHalfOpen THEN [b1 EXCEPT !.state = StateOpen] ELSE b1

\* A fail that does not stamp lastFailure.
fail_unstamped(br, n) ==
    LET c == [br.counts EXCEPT !.TotalFailures = @ + 1,
                               !.ConsecutiveFailures = @ + 1,
                               !.ConsecutiveSuccesses = 0]
        b1 == [br EXCEPT !.counts = c]
    IN  IF b1.state = StateHalfOpen THEN [b1 EXCEPT !.state = StateOpen] ELSE b1

\* Breaker.fail
fail(br, n) ==
    LET c == [br.counts EXCEPT !.TotalFailures = @ + 1,
                               !.ConsecutiveFailures = @ + 1,
                               !.ConsecutiveSuccesses = 0]
        b1 == [br EXCEPT !.lastFailure = n, !.counts = c]
    IN  IF b1.state = StateHalfOpen THEN [b1 EXCEPT !.state = StateOpen] ELSE b1

\* A success that leaves the failure streak standing.
success_streak(br, n) ==
    LET c == [br.counts EXCEPT !.TotalSuccesses = @ + 1,
                               !.ConsecutiveSuccesses = @ + 1]
        b1 == [br EXCEPT !.counts = c]
    IN  IF b1.state = StateHalfOpen THEN reset(b1, n) ELSE b1

\* Breaker.success
success(br, n) ==
    LET c == [br.counts EXCEPT !.TotalSuccesses = @ + 1,
                               !.ConsecutiveSuccesses = @ + 1,
                               !.ConsecutiveFailures = 0]
        b1 == [br EXCEPT !.counts = c]
    IN  IF b1.state = StateHalfOpen THEN reset(b1, n) ELSE b1

\* An Open branch that never gives the breaker its chance.
checkOpen_stuck(br, n, o) == br

\* An Open branch that closes the breaker once Timeout has passed.
checkOpen_closes(br, n, o) ==
    IF br.state = StateOpen /\ SinceAtLeast(br.lastFailure, n, o.Timeout)
    THEN [br EXCEPT !.state = StateClosed]
    ELSE br

\* An Open branch that waits for more than Timeout.
checkOpen_late(br, n, o) ==
    IF br.state = StateOpen /\ br.lastFailure # ZeroTime /\ n - br.lastFailure > o.Timeout
    THEN [br EXCEPT !.state = StateHalfOpen]
    ELSE br

\* The handler's Open branch: after Timeout since the last failure the
\* breaker gets one chance and becomes half-open.
checkOpen(br, n, o) ==
    IF br.state = StateOpen /\ SinceAtLeast(br.lastFailure, n, o.Timeout)
    THEN [br EXCEPT !.state = StateHalfOpen]
    ELSE br

\* The interval measured from the last failure.
intervalStart_lastFailure(br) == br.lastFailure

\* The time the handler's Closed branch measures the interval from.
intervalStart(br) == br.lastInterval

\* A Closed branch whose trip policy is asked in HalfOpen too.
checkClosed_always(br, n, o, ctx) ==
    LET b1 == IF br.state = StateClosed /\ SinceAtLeast(intervalStart(br), n, o.Interval)
              THEN reset(br, n) ELSE br
    IN  IF br.state # StateOpen /\ OnTrip(o.OnTrip, ctx, b1.counts)
        THEN [b1 EXCEPT !.state = StateOpen] ELSE b1

\* A Closed branch that asks the trip policy first and resets afterwards.
checkClosed_tripFirst(br, n, o, ctx) ==
    IF br.state = StateClosed
    THEN IF OnTrip(o.OnTrip, ctx, br.counts)
         THEN [br EXCEPT !.state = StateOpen]
         ELSE IF SinceAtLeast(intervalStart(br), n, o.Interval)
              THEN reset(br, n) ELSE br
    ELSE br

\* The handler's Closed branch: the interval reset, then the trip policy.
checkClosed(br, n, o, ctx) ==
    IF br.state = StateClosed
    THEN LET b1 == IF SinceAtLeast(intervalStart(br), n, o.Interval)
                   THEN reset(br, n) ELSE br
         IN  IF OnTrip(o.OnTrip, ctx, b1.counts)
             THEN [b1 EXCEPT !.state = StateOpen] ELSE b1
    ELSE br

\* A handler that counts the 503 of a rejected attempt as a failure.
check_counting(br, n, o, ctx) ==
    LET r == checkClosed(checkOpen(br, n, o), n, o, ctx)
    IN  IF r.state = StateOpen THEN fail(r, n) ELSE r

\* The handler up to its admission decision.
check(br, n, o, ctx) == checkClosed(checkOpen(br, n, o), n, o, ctx)

\* The deferred function of the handler: the outcome by the response status.
record(br, n, status) ==
    IF status \in DefaultFailureStatuses THEN fail(br, n) ELSE success(br, n)

Recorded(c) == c.TotalSuccesses + c.TotalFailures

\* ------------------------------------------------------------------- Init

\* New: the breaker starts closed with zero counts; lastInterval is the
\* time of construction, lastFailure the zero time.
Init ==
    /\ now = 0
    /\ b = [state |-> StateClosed, counts |-> ZeroCounts,
            lastFailure |-> ZeroTime, lastInterval |-> 0]
    /\ options \in [Timeout : {1, MaxTimeout}, Interval : {MaxInterval}, OnTrip : Policies]
    /\ pc = "idle"
    /\ ret = [value |-> 0, err |-> NoError]
    /\ ev = [op |-> "New", from |-> b, ran |-> FALSE]
    /\ manual = "none"
    /\ mapped = FALSE
    /\ calls = <<>>
    /\ hs = [p \in Procs |-> IdleHandler]
    /\ done = 0

\* ---------------------------------------------------------------- actions

\* Time passes.
Tick ==
    /\ now < MaxTime
    /\ now' = now + 1
    /\ UNCHANGED <<b, options, pc, ret, ev, manual, mapped>>
    /\ UNCHANGED <<calls, hs, done>>

\* The handler New returns, from its entry to c.Next(): pre-check, trip
\* policy, and either the abort with ErrOpenState or the admission.
Handler ==
    /\ pc = "idle"
    /\ \E ctx \in BOOLEAN :
          LET b2 == check(b, now, options, ctx) IN
          /\ b' = b2
          /\ IF b2.state = StateOpen
             THEN /\ pc' = "idle"
                  /\ ret' = [value |-> StatusServiceUnavailable, err |-> ErrOpenState]
                  /\ ev' = [op |-> "reject", from |-> b, ran |-> FALSE]
             ELSE /\ pc' = "next"
                  /\ ret' = ret
                  /\ ev' = [op |-> "admit", from |-> b, ran |-> TRUE]
    /\ manual' = "none"
    /\ mapped' = (mapped \/ pc' = "next")
    /\ UNCHANGED <<options, now>>
    /\ UNCHANGED <<calls, hs, done>>

\* Breaker.Open, called by the application on the breaker mapped into its
\* handlers (within an attempt, or later on the pointer it kept).
Open ==
    /\ mapped
    /\ b' = [b EXCEPT !.state = StateOpen]
    /\ ev' = [op |-> "Open", from |-> b, ran |-> FALSE]
    /\ manual' = "Open"
    /\ UNCHANGED <<options, now, pc, ret, mapped>>
    /\ UNCHANGED <<calls, hs, done>>

\* Breaker.Close, called by the application on the breaker mapped into its
\* handlers (within an attempt, or later on the pointer it kept).
Close ==
    /\ mapped
    /\ b' = [b EXCEPT !.state = StateClosed]
    /\ ev' = [op |-> "Close", from |-> b, ran |-> FALSE]
    /\ manual' = "Close"
    /\ UNCHANGED <<options, now, pc, ret, mapped>>
    /\ UNCHANGED <<calls, hs, done>>

\* c.Next() returns with a response status and the deferred function
\* records the outcome.
Return ==
    /\ pc = "next"
    /\ Recorded(b.counts) < MaxCount
    /\ \E status \in Statuses :
          /\ b' = record(b, now, status)
          /\ ret' = [value |-> 0, err |-> NoError]
          /\ ev' = [op |-> IF status \in DefaultFailureStatuses THEN "fail" ELSE "success",
                    from |-> b, ran |-> FALSE]
    /\ pc' = "idle"
    /\ UNCHANGED <<options, now, manual, mapped>>
    /\ UNCHANGED <<calls, hs, done>>

Next == Tick \/ Handler \/ Open \/ Close \/ Return

Spec == Init /\ [][Next]_vars

\* The breaker left to itself: no call of Open or Close.
NextAuto == Tick \/ Handler \/ Return

SpecAuto == Init /\ [][NextAuto]_vars

\* ------------------------------------------- the breaker running forever

\* A time stamp one tick older, not older than MaxTime: every duration the
\* handler compares an age with is at most MaxTime, so an age of MaxTime
\* stands for every greater one.
Older(t) == IF t = ZeroTime \/ t = 0 THEN t ELSE t - 1

\* Time passes, without end: once the clock reads MaxTime the time stamps
\* move back instead of the clock moving on. The step before it is
\* forgotten.
TickLive ==
    /\ IF now < MaxTime
       THEN now' = now + 1 /\ b' = b
       ELSE /\ now' = now
            /\ b' = [b EXCEPT !.lastFailure = Older(@), !.lastInterval = Older(@)]
    /\ ev' = [op |-> "tick", from |-> b', ran |-> FALSE]
    /\ UNCHANGED <<options, pc, ret, manual, mapped>>
    /\ UNCHANGED <<calls, hs, done>>

\* Counters that stop: ConsecutiveFailures at MaxCount, which is above the
\* threshold of the default policy, so that the policy reads the same from
\* it; the other three, which neither the handler nor a policy of Policies
\* reads, at MaxUnread.
Sat(c) ==
    [f \in DOMAIN c |->
        LET m == IF f = "ConsecutiveFailures" THEN MaxCount ELSE MaxUnread
        IN  IF c[f] > m THEN m ELSE c[f]]

\* c.Next() returns and the outcome is recorded, however many were before.
ReturnLive ==
    /\ pc = "next"
    /\ \E status \in Statuses :
          LET r == record(b, now, status) IN
          /\ b' = [r EXCEPT !.counts = Sat(r.counts)]
          /\ ret' = [value |-> 0, err |-> NoError]
          /\ ev' = [op |-> IF status \in DefaultFailureStatuses THEN "fail" ELSE "success",
                    from |-> b, ran |-> FALSE]
    /\ pc' = "idle"
    /\ UNCHANGED <<options, now, manual, mapped>>
    /\ UNCHANGED <<calls, hs, done>>

NextLive == TickLive \/ Handler \/ ReturnLive

\* Time keeps advancing, attempts keep arriving, and the guarded chain of
\* an admitted attempt returns.
SpecLive ==
    /\ Init
    /\ [][NextLive]_vars
    /\ WF_vars(TickLive)
    /\ WF_vars(Handler)
    /\ WF_vars(ReturnLive)

\* ------------------------------------------------- the Execute breaker

\* &Counts{} of the Execute breaker, which also has a Requests field.
CbZeroCounts ==
    [Requests |-> 0, TotalSuccesses |-> 0, TotalFailures |-> 0,
     ConsecutiveSuccesses |-> 0, ConsecutiveFailures |-> 0]

\* What the function given to Execute may return: a value and no error, or
\* no value and an error of its own.
FnResults == {[value |-> 1, err |-> NoError], [value |-> 0, err |-> "fn error"]}

\* Counts.success
CountsSuccess(c) ==
    [c EXCEPT !.TotalSuccesses = @ + 1,
              !.ConsecutiveSuccesses = @ + 1,
              !.ConsecutiveFailures = 0]

\* Counts.fail
CountsFail(c) ==
    [c EXCEPT !.TotalFailures = @ + 1,
              !.ConsecutiveFailures = @ + 1,
              !.ConsecutiveSuccesses = 0]

\* New of the Execute breaker: closed, zero counts, lastFailure the zero
\* time; the breaker has no lastInterval.
InitCb ==
    /\ now = 0
    /\ b = [state |-> StateClosed, counts |-> CbZeroCounts, lastFailure |-> ZeroTime]
    /\ options = [Timeout |-> MaxTimeout, Interval |-> MaxInterval, OnTrip |-> "tripper"]
    /\ pc = "idle"
    /\ ret = [value |-> 0, err |-> NoError]
    /\ ev = [op |-> "New", from |-> b, ran |-> FALSE]
    /\ manual = "none"
    /\ mapped = FALSE
    /\ calls = <<>>
    /\ hs = [p \in Procs |-> IdleHandler]
    /\ done = 0

\* The handler of the Execute breaker up to c.Next(): its pre-check is
\* commented out, so it maps the breaker and runs the chain.
CbHandler ==
    /\ pc = "idle"
    /\ pc' = "next"
    /\ mapped' = TRUE
    /\ manual' = "none"
    /\ ev' = [op |-> "admit", from |-> b, ran |-> TRUE]
    /\ UNCHANGED <<b, options, now, ret>>
    /\ UNCHANGED <<calls, hs, done>>

\* Breaker.Execute: fn is called, its error counted as a failure and its
\* value and error returned.
Execute ==
    /\ mapped
    /\ Recorded(b.counts) < MaxCount
    /\ \E r \in FnResults :
          /\ b' = IF r.err # NoError
                  THEN [b EXCEPT !.counts = CountsFail(@), !.lastFailure = now]
                  ELSE [b EXCEPT !.counts = CountsSuccess(@)]
          /\ ret' = r
          /\ ev' = [op |-> "Execute", from |-> b, ran |-> TRUE, fn |-> r]
    /\ UNCHANGED <<options, now, pc, manual, mapped>>
    /\ UNCHANGED <<calls, hs, done>>

\* Breaker.Fail
Fail ==
    /\ mapped
    /\ Recorded(b.counts) < MaxCount
    /\ b' = [b EXCEPT !.counts = CountsFail(@), !.lastFailure = now]
    /\ ev' = [op |-> "Fail", from |-> b, ran |-> FALSE]
    /\ UNCHANGED <<options, now, pc, ret, manual, mapped>>
    /\ UNCHANGED <<calls, hs, done>>

\* c.Next() returns in the handler of the Execute breaker: the deferred
\* function calls Fail on a failure status and does nothing otherwise.
CbReturn ==
    /\ pc = "next"
    /\ \E status \in Statuses :
          IF status \in DefaultFailureStatuses
          THEN /\ Recorded(b.counts) < MaxCount
               /\ b' = [b EXCEPT !.counts = CountsFail(@), !.lastFailure = now]
               /\ ev' = [op |-> "fail", from |-> b, ran |-> FALSE]
          ELSE /\ b' = b
               /\ ev' = [op |-> "return", from |-> b, ran |-> FALSE]
    /\ pc' = "idle"
    /\ UNCHANGED <<options, now, ret, manual, mapped>>
    /\ UNCHANGED <<calls, hs, done>>

NextCb == Tick \/ CbHandler \/ Execute \/ Fail \/ Open \/ Close \/ CbReturn

SpecCb == InitCb /\ [][NextCb]_vars

\* --------------------------------------------- New on any Options

\* What New makes of the caller's Options: a Timeout or an Interval of 0
\* becomes 60 seconds and a nil OnTrip the default tripper; nothing else is
\* looked at, and New returns no error.
NewOptions(o) ==
    [o EXCEPT !.Timeout = IF o.Timeout = 0 THEN DefaultDuration ELSE o.Timeout,
              !.Interval = IF o.Interval = 0 THEN DefaultDuration ELSE o.Interval,
              !.OnTrip = IF o.OnTrip = "nil" THEN "tripper" ELSE o.OnTrip]

\* New called with durations that are negative, zero or positive.
InitNew ==
    /\ now = 0
    /\ b = [state |-> StateClosed, counts |-> ZeroCounts,
            lastFailure |-> ZeroTime, lastInterval |-> 0]
    /\ \E o \in [Timeout : {-1, 0, 1}, Interval : {-1, 0, MaxInterval}, OnTrip : {"nil"}] :
          options = NewOptions(o)
    /\ pc = "idle"
    /\ ret = [value |-> 0, err |-> NoError]
    /\ ev = [op |-> "New", from |-> b, ran |-> FALSE]
    /\ manual = "none"
    /\ mapped = FALSE
    /\ calls = <<>>
    /\ hs = [p \in Procs |-> IdleHandler]
    /\ done = 0

NextNew == Tick \/ Handler \/ Return

SpecNew == InitNew /\ [][NextNew]_vars

\* ------------------------------------ handlers running concurrently

\* The handler of the middleware breaker is run by each request's goroutine
\* and takes no lock. SpecConc runs NumProcs invocations of it together:
\* the part up to the admission decision is one step, and the deferred
\* function is two, the read and the write of the counter's increment
\* (TotalFailures++ or TotalSuccesses++ is a load and a store that another
\* goroutine's load and store may fall between).

\* Whether the handler's pre-check zeroes the counts.
resets(br, n, o) ==
    /\ checkOpen(br, n, o).state = StateClosed
    /\ SinceAtLeast(intervalStart(br), n, o.Interval)

\* The handler from its entry to c.Next(), in invocation p.
CHandler(p) ==
    /\ hs[p].pc = "idle"
    /\ \E ctx \in BOOLEAN :
          LET b2 == check(b, now, options, ctx) IN
          /\ b' = b2
          /\ hs' = IF b2.state = StateOpen
                   THEN hs
                   ELSE [hs EXCEPT ![p] = [pc |-> "next", tmp |-> 0,
                                           admitted |-> b2.state, out |-> "none"]]
    /\ done' = IF resets(b, now, options) THEN 0 ELSE done
    /\ UNCHANGED <<options, now, pc, ret, ev, manual, mapped, calls>>

\* c.Next() returns in invocation p and the deferred function starts:
\* fail() stamps lastFailure and loads TotalFailures, success() loads
\* TotalSuccesses.
CLoad(p) ==
    /\ hs[p].pc = "next"
    /\ Recorded(b.counts) + Cardinality({q \in Procs : hs[q].pc = "store"}) < MaxConcCount
    /\ \E status \in Statuses :
          IF status \in DefaultFailureStatuses
          THEN /\ b' = [b EXCEPT !.lastFailure = now]
               /\ hs' = [hs EXCEPT ![p].pc = "store", ![p].out = "fail",
                                   ![p].tmp = b.counts.TotalFailures]
          ELSE /\ b' = b
               /\ hs' = [hs EXCEPT ![p].pc = "store", ![p].out = "success",
                                   ![p].tmp = b.counts.TotalSuccesses]
    /\ UNCHANGED <<options, now, pc, ret, ev, manual, mapped, calls, done>>

\* The rest of fail() or success() in invocation p: the store of the
\* incremented counter, the streak counters and the HalfOpen transition.
CStore(p) ==
    /\ hs[p].pc = "store"
    /\ b' = IF hs[p].out = "fail"
            THEN fail([b EXCEPT !.counts.TotalFailures = hs[p].tmp], b.lastFailure)
            ELSE success([b EXCEPT !.counts.TotalSuccesses = hs[p].tmp], now)
    /\ done' = IF hs[p].out = "success" /\ b.state = StateHalfOpen THEN 0 ELSE done + 1
    /\ hs' = [hs EXCEPT ![p] = IdleHandler]
    /\ UNCHANGED <<options, now, pc, ret, ev, manual, mapped, calls>>

NextConc == Tick \/ \E p \in Procs : CHandler(p) \/ CLoad(p) \/ CStore(p)

\* The breaker after New, with the timeout of one tick.
InitConc ==
    /\ Init
    /\ options.Timeout = 1

SpecConc == InitConc /\ [][NextConc]_vars

\* The deferred function of invocation p, taken as one step.
CReturn(p) ==
    /\ hs[p].pc = "next"
    /\ Recorded(b.counts) < MaxCount
    /\ \E status \in Statuses : b' = record(b, now, status)
    /\ hs' = [hs EXCEPT ![p] = IdleHandler]
    /\ UNCHANGED <<options, now, pc, ret, ev, manual, mapped, calls, done>>

\* Handlers that overlap, each one's two parts taken whole: what an attempt
\* finds when it arrives while others are in flight.
NextOverlap == Tick \/ \E p \in Procs : CHandler(p) \/ CReturn(p)

SpecOverlap == InitConc /\ [][NextOverlap]_vars

\* ------------------------------------------------------- steps, by kind

\* A step of the handler from its entry to the admission decision.
IsAttempt == pc = "idle" /\ now' = now /\ ev'.op \in {"reject", "admit"}
IsReject == IsAttempt /\ ev'.op = "reject"
IsAdmit == IsAttempt /\ ev'.op = "admit"
\* A step that records an outcome.
IsFail == pc = "next" /\ pc' = "idle" /\ ev'.op = "fail"
IsSuccess == pc = "next" /\ pc' = "idle" /\ ev'.op = "success"
\* A manual override.
IsOpen == pc' = pc /\ now' = now /\ ev'.op = "Open" /\ ev'.from = b
IsClose == pc' = pc /\ now' = now /\ ev'.op = "Close" /\ ev'.from = b

\* now - t >= d, for t a time of the clock or the zero time (ages ago).
Elapsed(t, d) == t = ZeroTime \/ now - t >= d

\* ------------------------------------------------------------------ claims

\* C1: under the default policy and with no interval reset due, recording a
\* failure in Closed leaves the state Closed; an attempt that finds Closed
\* with fewer than 5 consecutive failures is admitted; the attempt after the
\* 5th consecutive failure is rejected with ErrOpenState and leaves Open.
C1_TripOnNextAttempt ==
    [][ /\ (IsFail /\ b.state = StateClosed) => b'.state = StateClosed
        /\ ( /\ IsAttempt
             /\ options.OnTrip = "tripper"
             /\ b.state = StateClosed
             /\ ~Elapsed(b.lastInterval, options.Interval) )
           => IF b.counts.ConsecutiveFailures >= 5
              THEN /\ IsReject
                   /\ ret'.err = ErrOpenState
                   /\ b'.state = StateOpen
                   /\ pc' = "idle"
              ELSE IsAdmit /\ pc' = "next" ]_vars

\* C1 witness: exactly 5 failures and nothing else were recorded from the
\* start, and the attempt after them has just been rejected.
C1_Witness ==
    /\ ev.op = "reject"
    /\ options.OnTrip = "tripper"
    /\ ev.from.state = StateClosed
    /\ ev.from.counts = [TotalSuccesses |-> 0, TotalFailures |-> 5,
                         ConsecutiveSuccesses |-> 0, ConsecutiveFailures |-> 5]
    /\ ev.from.lastInterval = 0
    /\ b.state = StateOpen
    /\ ret.err = ErrOpenState

\* C2: an attempt that finds Open is rejected and leaves Open while
\* now - lastFailure < Timeout, and from Timeout on it makes the state
\* HalfOpen and is admitted (the guarded chain runs with HalfOpen).
C2_OpenTimeout ==
    [][ (IsAttempt /\ b.state = StateOpen)
        => IF Elapsed(b.lastFailure, options.Timeout)
           THEN IsAdmit /\ b'.state = StateHalfOpen /\ pc' = "next"
           ELSE /\ IsReject
                /\ b'.state = StateOpen
                /\ pc' = "idle"
                /\ ret'.err = ErrOpenState ]_vars

\* C2 witness: an attempt exactly Timeout after the last failure found Open
\* and is running the guarded chain with HalfOpen.
C2_Witness ==
    /\ ev.op = "admit"
    /\ ev.from.state = StateOpen
    /\ ev.from.lastFailure # ZeroTime
    /\ now - ev.from.lastFailure = options.Timeout
    /\ b.state = StateHalfOpen
    /\ pc = "next"

\* C3: recording a failure in HalfOpen makes the state Open and stamps
\* lastFailure with the current time; the attempt that follows it is
\* rejected exactly while less than Timeout has passed since that failure.
C3_ProbeFailure ==
    [][ /\ (IsFail /\ b.state = StateHalfOpen)
           => b'.state = StateOpen /\ b'.lastFailure = now
        /\ (IsAttempt /\ ev.op = "fail" /\ ev.from.state = StateHalfOpen)
           => /\ b.state = StateOpen
              /\ IF now - b.lastFailure < options.Timeout
                 THEN IsReject /\ b'.state = StateOpen
                 ELSE IsAdmit /\ b'.state = StateHalfOpen ]_vars

\* C3 witness: a probe admitted after an earlier failure has just failed.
C3_Witness ==
    /\ ev.op = "fail"
    /\ ev.from.state = StateHalfOpen
    /\ ev.from.lastFailure # ZeroTime
    /\ ev.from.lastFailure < now
    /\ b.state = StateOpen
    /\ b.lastFailure = now
    /\ pc = "idle"

\* C4: recording a success in HalfOpen makes the state Closed, zeroes the
\* four counters and stamps lastInterval with the current time.
C4_ProbeSuccess ==
    [][ (IsSuccess /\ b.state = StateHalfOpen)
        => /\ b'.state = StateClosed
           /\ b'.counts = ZeroCounts
           /\ b'.lastInterval = now ]_vars

\* C4 witness: a probe succeeded on a breaker that had failures counted
\* and an older lastInterval.
C4_Witness ==
    /\ ev.op = "success"
    /\ ev.from.state = StateHalfOpen
    /\ ev.from.counts.TotalFailures >= 5
    /\ ev.from.lastInterval < now
    /\ b.state = StateClosed
    /\ b.counts = ZeroCounts
    /\ b.lastInterval = now

\* C5: the attempt that follows a manual Open() is rejected with
\* ErrOpenState.
C5_OpenRejectsNext ==
    [][ (IsAttempt /\ manual = "Open")
        => IsReject /\ ret'.err = ErrOpenState /\ b'.state = StateOpen ]_vars

\* C6: a manual Close() makes the state Closed and zeroes the counters, and
\* under the default policy the attempt that follows it is admitted.
C6_CloseResetsAndAdmits ==
    [][ /\ IsClose => b'.state = StateClosed /\ b'.counts = ZeroCounts
        /\ (IsAttempt /\ manual = "Close" /\ options.OnTrip = "tripper")
           => IsAdmit ]_vars

C8_RejectChangesNothing ==
    [][ /\ (IsAttempt /\ b'.state = StateOpen)
           => /\ pc' = "idle"
              /\ ~ev'.ran
              /\ b'.counts = b.counts
              /\ b'.lastFailure = b.lastFailure
              /\ b'.lastInterval = b.lastInterval
        /\ (IsAttempt /\ pc' = "next")
           => b'.state \in {StateClosed, StateHalfOpen} ]_vars

\* C8 amended: as C8, but an attempt that found Closed with
\* now - lastInterval >= Interval has zeroed the counts and stamped
\* lastInterval before the trip policy rejected it.
C8_RejectRecordsNothing ==
    [][ /\ (IsAttempt /\ b'.state = StateOpen)
           => /\ pc' = "idle"
              /\ ~ev'.ran
              /\ b'.lastFailure = b.lastFailure
              /\ IF b.state = StateClosed /\ now - b.lastInterval >= options.Interval
                 THEN b'.counts = ZeroCounts /\ b'.lastInterval = now
                 ELSE b'.counts = b.counts /\ b'.lastInterval = b.lastInterval
        /\ (IsAttempt /\ pc' = "next")
           => b'.state \in {StateClosed, StateHalfOpen} /\ ev'.ran ]_vars

\* C8 witness: an attempt was rejected on a breaker with outcomes counted,
\* and its counts and times are those from before the attempt.
C8_Witness ==
    /\ ev.op = "reject"
    /\ pc = "idle"
    /\ b.state = StateOpen
    /\ ev.from.counts.TotalSuccesses > 0
    /\ ev.from.counts.TotalFailures > 0
    /\ b.counts = ev.from.counts
    /\ b.lastFailure = ev.from.lastFailure
    /\ b.lastInterval = ev.from.lastInterval

\* C10: at most one of ConsecutiveSuccesses and ConsecutiveFailures is
\* nonzero, and no counter is negative.
C10_StreaksExclusive ==
    /\ b.counts.ConsecutiveSuccesses = 0 \/ b.counts.ConsecutiveFailures = 0
    /\ b.counts.TotalSuccesses >= 0
    /\ b.counts.TotalFailures >= 0
    /\ b.counts.ConsecutiveSuccesses >= 0
    /\ b.counts.ConsecutiveFailures >= 0

\* C10 witness: a failure was recorded on a success streak.
C10_Witness ==
    /\ ev.op = "fail"
    /\ ev.from.counts.ConsecutiveSuccesses > 1
    /\ b.counts.ConsecutiveSuccesses = 0
    /\ b.counts.ConsecutiveFailures = 1

\* A step of Breaker.Execute.
IsExecute == ev'.op = "Execute" /\ now' = now /\ pc' = pc /\ ev'.from = b

\* C9: Execute on an open breaker returns ErrOpenState without calling fn
\* and without changing the counts; when fn is called, Execute returns
\* fn's value and error.
C9_ExecuteGuards ==
    [][ IsExecute
        => IF b.state = StateOpen
           THEN /\ ret'.err = ErrOpenState
                /\ ~ev'.ran
                /\ b'.counts = b.counts
           ELSE ev'.ran /\ ret' = ev'.fn ]_vars

\* C11: every change of the breaker's state is followed by exactly one call
\* of OnStateChange with the old and the new state, and no call is made
\* when the state stays.
C11_ObserverCalled ==
    [][ IF b'.state # b.state
        THEN calls' = Append(calls, <<"CircuitBreaker", b.state, b'.state>>)
        ELSE calls' = calls ]_vars

\* The probes in flight: the invocations admitted with HalfOpen whose
\* outcome is not recorded yet.
Probes == {p \in Procs : hs[p].pc \in {"next", "store"} /\ hs[p].admitted = StateHalfOpen}

\* C12: while the state is HalfOpen, no more than MaxRequests (1 by
\* default) probes are in flight.
C12_ProbeLimit ==
    b.state = StateHalfOpen => Cardinality(Probes) <= DefaultMaxRequests

\* C13: with handlers running together no increment is lost: whenever no
\* invocation is inside fail() or success(), TotalSuccesses + TotalFailures
\* is the number of outcomes recorded since the counts were last zeroed.
C13_NoLostUpdate ==
    (\A p \in Procs : hs[p].pc # "store") => Recorded(b.counts) = done

\* C14: a breaker configured with a negative timeout or a negative
\* interval is refused by New, so none ever processes an attempt.
C14_NegativeRefused ==
    (options.Timeout < 0 \/ options.Interval < 0) => ev.op = "New"

\* C15: without Open() and Close(), the state changes only from Closed to
\* Open (the trip in the pre-check of an attempt, which is then rejected),
\* from Open to HalfOpen (the timeout in the pre-check of an attempt, which
\* is then admitted), from HalfOpen to Open (a failure recorded) and from
\* HalfOpen to Closed (a success recorded).
C15_Transitions ==
    [][ b'.state # b.state =>
          \/ /\ b.state = StateClosed /\ b'.state = StateOpen
             /\ IsReject
          \/ /\ b.state = StateOpen /\ b'.state = StateHalfOpen
             /\ IsAdmit /\ Elapsed(b.lastFailure, options.Timeout)
          \/ /\ b.state = StateHalfOpen /\ b'.state = StateOpen
             /\ IsFail
          \/ /\ b.state = StateHalfOpen /\ b'.state = StateClosed
             /\ IsSuccess ]_vars

\* C15 witness: a probe has succeeded and closed the breaker, which had
\* tripped, waited out the timeout and become half-open before.
C15_Witness ==
    /\ ev.op = "success"
    /\ ev.from.state = StateHalfOpen
    /\ ev.from.lastFailure # ZeroTime
    /\ b.state = StateClosed

\* C16: in Closed the interval reset comes before the trip policy: under
\* the default policy an attempt that finds Closed with the interval elapsed
\* is admitted on zeroed counts and leaves Closed, whatever the counts were
\* before it, 5 or more consecutive failures included.
C16_ResetBeforeTrip ==
    [][ ( /\ IsAttempt
          /\ options.OnTrip = "tripper"
          /\ b.state = StateClosed
          /\ Elapsed(b.lastInterval, options.Interval) )
        => /\ IsAdmit
           /\ pc' = "next"
           /\ b'.state = StateClosed
           /\ b'.counts = ZeroCounts
           /\ b'.lastInterval = now ]_vars

\* C16 witness: an attempt found Closed with 5 or more consecutive
\* failures and the interval elapsed, and was admitted.
C16_Witness ==
    /\ ev.op = "admit"
    /\ options.OnTrip = "tripper"
    /\ ev.from.state = StateClosed
    /\ ev.from.counts.ConsecutiveFailures >= 5
    /\ now - ev.from.lastInterval >= options.Interval
    /\ b.state = StateClosed
    /\ b.counts = ZeroCounts
    /\ pc = "next"

\* C17: recording an outcome in Closed leaves the state Closed, also when
\* the counts then satisfy the trip policy; Closed becomes Open only in the
\* pre-check of an attempt (which is rejected) or by a call of Open().
C17_RecordingKeepsClosed ==
    [][ /\ ((IsFail \/ IsSuccess) /\ b.state = StateClosed) => b'.state = StateClosed
        /\ (b.state = StateClosed /\ b'.state = StateOpen) => (IsReject \/ IsOpen) ]_vars

\* C17 witness: a failure has just been recorded in Closed, the counts
\* satisfy the default policy, and the state is still Closed.
C17_Witness ==
    /\ ev.op = "fail"
    /\ pc = "idle"
    /\ options.OnTrip = "tripper"
    /\ ev.from.state = StateClosed
    /\ ev.from.counts.ConsecutiveFailures = 4
    /\ b.counts.ConsecutiveFailures = 5
    /\ b.state = StateClosed

\* C18: the trip policy is asked only when the state is Closed after the
\* time-based pre-check. An attempt that finds HalfOpen, or Open with the
\* timeout elapsed, is never rejected; it is admitted with HalfOpen and
\* leaves the counts and both time stamps as they were.
C18_PolicyOnlyInClosed ==
    [][ ( \/ b.state = StateHalfOpen
          \/ b.state = StateOpen /\ Elapsed(b.lastFailure, options.Timeout) )
        => /\ (hs' = hs /\ now' = now) => b' = b
           /\ \A p \in Procs :
                (hs[p].pc = "idle" /\ hs'[p].pc = "next")
                => /\ b' = [b EXCEPT !.state = StateHalfOpen]
                   /\ hs'[p].admitted = StateHalfOpen ]_vars

\* C18 witness: two attempts are in flight, both admitted with HalfOpen
\* (the first moved Open to HalfOpen, the second found HalfOpen), under a
\* policy that would have tripped had it been asked.
C18_Witness ==
    /\ b.state = StateHalfOpen
    /\ options.OnTrip = "tripper"
    /\ tripper(b.counts)
    /\ \A p \in Procs : hs[p].pc = "next" /\ hs[p].admitted = StateHalfOpen

\* C19: Open is not terminal: from Open an attempt is eventually admitted
\* with the state HalfOpen, and from HalfOpen the breaker eventually leaves
\* HalfOpen (when the probe's outcome is recorded).
C19_OpenNotTerminal ==
    /\ (b.state = StateOpen) ~> (b.state = StateHalfOpen /\ pc = "next")
    /\ (b.state = StateHalfOpen) ~> (b.state # StateHalfOpen)

\* C19 witness: an attempt has found Open, with a failure on record, and
\* has been admitted with HalfOpen.
C19_Witness ==
    /\ ev.op = "admit"
    /\ ev.from.state = StateOpen
    /\ ev.from.lastFailure # ZeroTime
    /\ b.state = StateHalfOpen
    /\ pc = "next"

\* Counts after one more success, and after one more failure.
OneMoreSuccess(c) ==
    [c EXCEPT !.TotalSuccesses = @ + 1, !.ConsecutiveSuccesses = @ + 1,
              !.ConsecutiveFailures = 0]
OneMoreFailure(c) ==
    [c EXCEPT !.TotalFailures = @ + 1, !.ConsecutiveFailures = @ + 1,
              !.ConsecutiveSuccesses = 0]

\* C20 as stated: in every state, recording a success leaves TotalSuccesses
\* and ConsecutiveSuccesses one higher, ConsecutiveFailures 0 and
\* TotalFailures unchanged; recording a failure leaves TotalFailures and
\* ConsecutiveFailures one higher, ConsecutiveSuccesses 0, TotalSuccesses
\* unchanged and lastFailure = now.
C20_RecordingCounts ==
    [][ /\ IsSuccess => b'.counts = OneMoreSuccess(b.counts)
        /\ IsFail => /\ b'.counts = OneMoreFailure(b.counts)
                     /\ b'.lastFailure = now ]_vars

\* C20 amended: a failure is counted like that in every state; a success is
\* counted like that in Closed and Open, and leaves lastFailure alone; a
\* success in HalfOpen leaves all four counters 0, the state Closed and
\* lastInterval = now.
C20_RecordingCountsOrReset ==
    [][ /\ IsSuccess =>
             IF b.state = StateHalfOpen
             THEN b' = [b EXCEPT !.counts = ZeroCounts, !.state = StateClosed,
                                 !.lastInterval = now]
             ELSE b' = [b EXCEPT !.counts = OneMoreSuccess(b.counts)]
        /\ IsFail => /\ b'.counts = OneMoreFailure(b.counts)
                     /\ b'.lastFailure = now
                     /\ b'.lastInterval = b.lastInterval ]_vars

\* C20 witness: a success has been recorded in HalfOpen, after failures
\* were counted, and the counts are zero.
C20_Witness ==
    /\ ev.op = "success"
    /\ ev.from.state = StateHalfOpen
    /\ ev.from.counts.TotalFailures > 0
    /\ ev.from.counts.ConsecutiveFailures > 0
    /\ b.counts = ZeroCounts
    /\ b.state = StateClosed

====
